---- MODULE Spec2Model ----
(***************************************************************************)
(* Model of wasm-fft/src/lib.rs: the FFT plan cache, the 3D FFT engine     *)
(* (FFT3D) and calculate_energy.                                           *)
(*                                                                         *)
(* f32 values are modelled by exact numbers (p + q*sqrt(2)) / 2^e, written *)
(* <<p, q, e>> in lowest terms.  This set holds the integers, is closed    *)
(* under + and *, holds 1/total_size for every supported size and holds    *)
(* every twiddle factor of the length-8 DFT, so a rounding-free f32        *)
(* computation at size 8 is computed by it exactly.                        *)
(***************************************************************************)
EXTENDS Integers, Sequences, FiniteSets, TLC

(***************************************************************************)
(* Exact arithmetic standing for f32.                                      *)
(***************************************************************************)
RECURSIVE FNorm(_, _, _)
FNorm(p, q, e) ==
    IF e > 0 /\ p % 2 = 0 /\ q % 2 = 0
    THEN FNorm(p \div 2, q \div 2, e - 1)
    ELSE <<p, q, e>>

RECURSIVE Pow2(_)
Pow2(k) == IF k = 0 THEN 1 ELSE 2 * Pow2(k - 1)

RECURSIVE Log2(_)
Log2(m) == IF m <= 1 THEN 0 ELSE 1 + Log2(m \div 2)

FInt(i) == <<i, 0, 0>>
FZero == FInt(0)
FOne == FInt(1)

\* A value this arithmetic cannot write down (a sample of a length-16 or
\* length-32 DFT): any f32.  Every operation on it yields it again.
Unknown == <<0, 0, -1>>
IsKnown(a) == a[3] >= 0

FAdd(a, b) ==
    IF ~IsKnown(a) \/ ~IsKnown(b) THEN Unknown
    ELSE IF a = FZero THEN b
    ELSE IF b = FZero THEN a
    ELSE IF a[3] = b[3]
    THEN FNorm(a[1] + b[1], a[2] + b[2], a[3])
    ELSE LET e == IF a[3] > b[3] THEN a[3] ELSE b[3]
             sa == Pow2(e - a[3])
             sb == Pow2(e - b[3])
         IN  FNorm(a[1] * sa + b[1] * sb, a[2] * sa + b[2] * sb, e)

FNeg(a) == IF IsKnown(a) THEN <<-a[1], -a[2], a[3]>> ELSE Unknown
FSub(a, b) == FAdd(a, FNeg(b))

FMul(a, b) ==
    IF ~IsKnown(a) \/ ~IsKnown(b) THEN Unknown
    ELSE IF a = FZero \/ b = FZero THEN FZero
    ELSE FNorm(a[1] * b[1] + 2 * a[2] * b[2], a[1] * b[2] + a[2] * b[1], a[3] + b[3])

\* 1.0 / (m as f32), m a power of two
FRecip(m) == <<1, 0, Log2(m)>>

(***************************************************************************)
(* num_complex::Complex<f32>                                               *)
(***************************************************************************)
Complex(re, im) == [re |-> re, im |-> im]
CZero == Complex(FZero, FZero)
CAdd(a, b) == Complex(FAdd(a.re, b.re), FAdd(a.im, b.im))
CMul(a, b) ==
    Complex(FSub(FMul(a.re, b.re), FMul(a.im, b.im)),
            FAdd(FMul(a.re, b.im), FMul(a.im, b.re)))

(***************************************************************************)
(* rustfft: the unnormalized DFT of a plan of length 8,                    *)
(*   X[k] = SUM_j x[j] * exp(-/+ 2*pi*i*j*k/8)                              *)
(***************************************************************************)
HalfSqrt2 == <<0, 1, 1>>

Cos8 == [m \in 0..7 |->
    CASE m = 0 -> FOne
      [] m \in {1, 7} -> HalfSqrt2
      [] m \in {2, 6} -> FZero
      [] m \in {3, 5} -> FNeg(HalfSqrt2)
      [] m = 4 -> FNeg(FOne)]

Sin8 == [m \in 0..7 |-> Cos8[(m + 6) % 8]]

\* exp(-2*pi*i*m/8) for a forward plan, exp(+2*pi*i*m/8) for an inverse plan
Twiddle8 == [d \in {"forward", "inverse"} |-> [m \in 0..7 |->
    Complex(Cos8[m], IF d = "forward" THEN FNeg(Sin8[m]) ELSE Sin8[m])]]

RECURSIVE DftSum(_, _, _, _)
DftSum(tw, x, k, j) ==
    IF j < 0 THEN CZero
    ELSE CAdd(DftSum(tw, x, k, j - 1), CMul(x[j], tw[(j * k) % 8]))

\* Fft::process_with_scratch on a slice x (a function on 0..len-1): the
\* DFT in the plan's direction.  The scratch buffer holds no result.  The
\* samples of a DFT of length 16 or 32 are Unknown.
process_with_scratch(plan, x) ==
    IF plan.len = 8
    THEN LET tw == Twiddle8[plan.dir]
         IN  [k \in 0..7 |-> DftSum(tw, x, k, 7)]
    ELSE [k \in 0..(plan.len - 1) |-> Complex(Unknown, Unknown)]

(***************************************************************************)
(* FFT3D::fft_3d, lines 223-275.  A buffer is a function on                *)
(* 0..total_size-1.  Beside the transformed buffer the model returns the   *)
(* list of process_with_scratch calls made, each with the executor used    *)
(* and the buffer positions read into and written from its slice.          *)
(***************************************************************************)
XStart(n, z, y) == z * n * n + y * n
YGather(n, z, x, y) == z * n * n + y * n + x
\* mutant: the Y slice is written back with z and y exchanged
YScatter_transposed(n, z, x, y) == y * n * n + z * n + x
YScatter(n, z, x, y) == z * n * n + y * n + x
ZGather(n, y, x, z) == z * n * n + y * n + x
ZScatter(n, y, x, z) == z * n * n + y * n + x

\* for j in 0..n { buffer[at[j]] = slice[j] }
RECURSIVE Scatter(_, _, _, _)
Scatter(buffer, slice, at, j) ==
    IF j = Len(at) THEN buffer
    ELSE Scatter([buffer EXCEPT ![at[j + 1]] = slice[j]], slice, at, j + 1)

\* one iteration of an axis loop: gather the slice, transform it, scatter it.
\* st holds the buffer, its length, the transforms made so far and whether
\* an index was outside 0..len-1, which panics.
SliceStep(st, axis, fft, from, to) ==
    IF \/ \E j \in 1..Len(from) : from[j] \notin 0..(st.len - 1)
       \/ \E j \in 1..Len(to) : to[j] \notin 0..(st.len - 1)
    THEN [st EXCEPT !.panicked = TRUE]
    ELSE LET n == Len(from)
             slice == [j \in 0..(n - 1) |-> st.buffer[from[j + 1]]]
             done == process_with_scratch(fft, slice)
         IN  [buffer |-> Scatter(st.buffer, done, to, 0),
              len |-> st.len,
              log |-> Append(st.log, [axis |-> axis, fft |-> fft, from |-> from, to |-> to]),
              panicked |-> FALSE]

\* X axis, lines 233-238: the slice is buffer[start..start + n], in place
RECURSIVE XLoopY(_, _, _, _, _)
XLoopY(st, n, fft, z, y) ==
    IF y = n \/ st.panicked THEN st
    ELSE LET start == XStart(n, z, y)
             range == [j \in 1..n |-> start + j - 1]
         IN  XLoopY(SliceStep(st, "X", fft, range, range), n, fft, z, y + 1)

RECURSIVE XLoopZ(_, _, _, _)
XLoopZ(st, n, fft, z) ==
    IF z = n \/ st.panicked THEN st ELSE XLoopZ(XLoopY(st, n, fft, z, 0), n, fft, z + 1)

\* Y axis, lines 241-255
RECURSIVE YLoopX(_, _, _, _, _)
YLoopX(st, n, fft, z, x) ==
    IF x = n \/ st.panicked THEN st
    ELSE LET from == [j \in 1..n |-> YGather(n, z, x, j - 1)]
             to == [j \in 1..n |-> YScatter(n, z, x, j - 1)]
         IN  YLoopX(SliceStep(st, "Y", fft, from, to), n, fft, z, x + 1)

RECURSIVE YLoopZ(_, _, _, _)
YLoopZ(st, n, fft, z) ==
    IF z = n \/ st.panicked THEN st ELSE YLoopZ(YLoopX(st, n, fft, z, 0), n, fft, z + 1)

\* Z axis, lines 258-272
RECURSIVE ZLoopX(_, _, _, _, _)
ZLoopX(st, n, fft, y, x) ==
    IF x = n \/ st.panicked THEN st
    ELSE LET from == [j \in 1..n |-> ZGather(n, y, x, j - 1)]
             to == [j \in 1..n |-> ZScatter(n, y, x, j - 1)]
         IN  ZLoopX(SliceStep(st, "Z", fft, from, to), n, fft, y, x + 1)

RECURSIVE ZLoopY(_, _, _, _)
ZLoopY(st, n, fft, y) ==
    IF y = n \/ st.panicked THEN st ELSE ZLoopY(ZLoopX(st, n, fft, y, 0), n, fft, y + 1)



(***************************************************************************)
(* FFTPlanCache, lines 27-80.  A plan is named by its length, its          *)
(* direction and the order in which the planner built it, so that a plan   *)
(* built again is another plan.  planner is the list of the plans it was   *)
(* asked to build.                                                         *)
(***************************************************************************)
None == <<>>

FFTPlanCache_new ==
    [size_8 |-> None, size_16 |-> None, size_32 |-> None, planner |-> <<>>]

plan_fft_forward(planner, len) ==
    [len |-> len, dir |-> "forward", serial |-> Len(planner) + 1]
plan_fft_inverse(planner, len) ==
    [len |-> len, dir |-> "inverse", serial |-> Len(planner) + 1]

NoErr == [kind |-> "none", expected |-> 0, got |-> 0, which |-> "none", size |-> 0]
UnsupportedSize(size) == [NoErr EXCEPT !.kind = "UnsupportedSize", !.size = size]
InvalidInputLength(expected, got, which) ==
    [NoErr EXCEPT !.kind = "InvalidInputLength", !.expected = expected,
                  !.got = got, !.which = which]

\* the body shared by the three arms: build the pair if the slot is empty
BuildPair(planner, len) ==
    LET fwd == plan_fft_forward(planner, len)
        inv == plan_fft_inverse(Append(planner, fwd), len)
    IN  [pair |-> <<fwd, inv>>, planner |-> Append(Append(planner, fwd), inv)]

\* mutant: the pair is built on every call, the slot's content ignored
get_plans_rebuild(self, size) ==
    CASE size = 8 ->
           LET built == BuildPair(self.planner, 8)
               now == [self EXCEPT !.size_8 = built.pair, !.planner = built.planner]
           IN  [self |-> now, ok |-> TRUE, plans |-> now.size_8, err |-> NoErr]
      [] size = 16 ->
           LET built == BuildPair(self.planner, 16)
               now == [self EXCEPT !.size_16 = built.pair, !.planner = built.planner]
           IN  [self |-> now, ok |-> TRUE, plans |-> now.size_16, err |-> NoErr]
      [] size = 32 ->
           LET built == BuildPair(self.planner, 32)
               now == [self EXCEPT !.size_32 = built.pair, !.planner = built.planner]
           IN  [self |-> now, ok |-> TRUE, plans |-> now.size_32, err |-> NoErr]
      [] OTHER ->
           [self |-> self, ok |-> FALSE, plans |-> None, err |-> UnsupportedSize(size)]

get_plans(self, size) ==
    CASE size = 8 ->
           LET built == BuildPair(self.planner, 8)
               now == IF self.size_8 = None
                      THEN [self EXCEPT !.size_8 = built.pair, !.planner = built.planner]
                      ELSE self
           IN  [self |-> now, ok |-> TRUE, plans |-> now.size_8, err |-> NoErr]
      [] size = 16 ->
           LET built == BuildPair(self.planner, 16)
               now == IF self.size_16 = None
                      THEN [self EXCEPT !.size_16 = built.pair, !.planner = built.planner]
                      ELSE self
           IN  [self |-> now, ok |-> TRUE, plans |-> now.size_16, err |-> NoErr]
      [] size = 32 ->
           LET built == BuildPair(self.planner, 32)
               now == IF self.size_32 = None
                      THEN [self EXCEPT !.size_32 = built.pair, !.planner = built.planner]
                      ELSE self
           IN  [self |-> now, ok |-> TRUE, plans |-> now.size_32, err |-> NoErr]
      [] OTHER ->
           [self |-> self, ok |-> FALSE, plans |-> None, err |-> UnsupportedSize(size)]

(***************************************************************************)
(* FFT3D, lines 91-276.  An array (a slice or a Vec) is a function on      *)
(* 0..len-1.                                                               *)
(***************************************************************************)
ALen(a) == Cardinality(DOMAIN a)
Min(a, b) == IF a < b THEN a ELSE b

\* mutant: the size is checked against a range
FFT3D_new_range(size) ==
    IF size < 8 \/ size > 32
    THEN [ok |-> FALSE, engine |-> None, err |-> UnsupportedSize(size)]
    ELSE [ok |-> TRUE,
          engine |-> [size |-> size,
                      total_size |-> size * size * size,
                      plan_cache |-> FFTPlanCache_new],
          err |-> NoErr]

\* mutant: total_size is the square of the size
FFT3D_new_square(size) ==
    IF size # 8 /\ size # 16 /\ size # 32
    THEN [ok |-> FALSE, engine |-> None, err |-> UnsupportedSize(size)]
    ELSE [ok |-> TRUE,
          engine |-> [size |-> size,
                      total_size |-> size * size,
                      plan_cache |-> FFTPlanCache_new],
          err |-> NoErr]

FFT3D_new(size) ==
    IF size # 8 /\ size # 16 /\ size # 32
    THEN [ok |-> FALSE, engine |-> None, err |-> UnsupportedSize(size)]
    ELSE [ok |-> TRUE,
          engine |-> [size |-> size,
                      total_size |-> size * size * size,
                      plan_cache |-> FFTPlanCache_new],
          err |-> NoErr]

size(self) == self.size
total_size(self) == self.total_size

\* mutant: the imaginary array is checked first
validate_input_imag_first(self, input_real, input_imag) ==
    IF ALen(input_imag) # self.total_size
    THEN InvalidInputLength(self.total_size, ALen(input_imag), "imag")
    ELSE IF ALen(input_real) # self.total_size
    THEN InvalidInputLength(self.total_size, ALen(input_real), "real")
    ELSE NoErr

validate_input(self, input_real, input_imag) ==
    IF ALen(input_real) # self.total_size
    THEN InvalidInputLength(self.total_size, ALen(input_real), "real")
    ELSE IF ALen(input_imag) # self.total_size
    THEN InvalidInputLength(self.total_size, ALen(input_imag), "imag")
    ELSE NoErr

\* What a call of fft_3d, forward or inverse leaves behind: the engine, how
\* the call ended ("ok", "err", or "panic" for an index out of range), the
\* buffer or returned vector, the error, the pair get_plans returned and the
\* list of process_with_scratch calls.
Outcome(self, kind, value, err, plans, log) ==
    [self |-> self, kind |-> kind, value |-> value, err |-> err,
     plans |-> plans, log |-> log]

\* mutant: the plans are asked for total_size
fft_3d_total_size(self, buffer, forward) ==
    LET got == get_plans(self.plan_cache, self.total_size)
    IN  IF ~got.ok
        THEN Outcome(self, "err", buffer, got.err, None, <<>>)
        ELSE LET fft == IF forward THEN got.plans[1] ELSE got.plans[2]
                 n == self.size
                 start == [buffer |-> buffer, len |-> ALen(buffer), log |-> <<>>, panicked |-> FALSE]
                 st == ZLoopY(YLoopZ(XLoopZ(start, n, fft, 0), n, fft, 0), n, fft, 0)
             IN  Outcome([self EXCEPT !.plan_cache = got.self],
                         IF st.panicked THEN "panic" ELSE "ok",
                         st.buffer, NoErr, got.plans, st.log)

fft_3d(self, buffer, forward) ==
    LET got == get_plans(self.plan_cache, self.size)
    IN  IF ~got.ok
        THEN Outcome(self, "err", buffer, got.err, None, <<>>)
        ELSE LET fft == IF forward THEN got.plans[1] ELSE got.plans[2]
                 n == self.size
                 start == [buffer |-> buffer, len |-> ALen(buffer), log |-> <<>>, panicked |-> FALSE]
                 st == ZLoopY(YLoopZ(XLoopZ(start, n, fft, 0), n, fft, 0), n, fft, 0)
             IN  Outcome([self EXCEPT !.plan_cache = got.self],
                         IF st.panicked THEN "panic" ELSE "ok",
                         st.buffer, NoErr, got.plans, st.log)

\* input_real.iter().zip(input_imag.iter()).map(Complex::new).collect()
ZipComplex(input_real, input_imag) ==
    [i \in 0..(Min(ALen(input_real), ALen(input_imag)) - 1) |->
        Complex(input_real[i], input_imag[i])]

\* mutant: the imaginary part is written first
Interleave_swapped(buffer) ==
    [i \in 0..(2 * ALen(buffer) - 1) |->
        IF i % 2 = 0 THEN buffer[i \div 2].im ELSE buffer[i \div 2].re]

\* buffer.iter().flat_map(|c| [c.re, c.im]).collect()
Interleave(buffer) ==
    [i \in 0..(2 * ALen(buffer) - 1) |->
        IF i % 2 = 0 THEN buffer[i \div 2].re ELSE buffer[i \div 2].im]

forward(self, input_real, input_imag) ==
    LET bad == validate_input(self, input_real, input_imag)
        done == fft_3d(self, ZipComplex(input_real, input_imag), TRUE)
    IN  IF bad # NoErr THEN Outcome(self, "err", <<>>, bad, None, <<>>)
        ELSE IF done.kind # "ok" THEN [done EXCEPT !.value = <<>>]
        ELSE [done EXCEPT !.value = Interleave(done.value)]

\* mutant: the scale is 1/size
Normalize_by_size(self, buffer) ==
    LET scale == FRecip(self.size)
    IN  [i \in DOMAIN buffer |->
            Complex(FMul(buffer[i].re, scale), FMul(buffer[i].im, scale))]

Normalize(self, buffer) ==
    LET scale == FRecip(self.total_size)
    IN  [i \in DOMAIN buffer |->
            Complex(FMul(buffer[i].re, scale), FMul(buffer[i].im, scale))]

\* mutant: the result is not normalized
inverse_unscaled(self, input_real, input_imag) ==
    LET bad == validate_input(self, input_real, input_imag)
        done == fft_3d(self, ZipComplex(input_real, input_imag), FALSE)
    IN  IF bad # NoErr THEN Outcome(self, "err", <<>>, bad, None, <<>>)
        ELSE IF done.kind # "ok" THEN [done EXCEPT !.value = <<>>]
        ELSE [done EXCEPT !.value = Interleave(done.value)]

inverse(self, input_real, input_imag) ==
    LET bad == validate_input(self, input_real, input_imag)
        done == fft_3d(self, ZipComplex(input_real, input_imag), FALSE)
    IN  IF bad # NoErr THEN Outcome(self, "err", <<>>, bad, None, <<>>)
        ELSE IF done.kind # "ok" THEN [done EXCEPT !.value = <<>>]
        ELSE [done EXCEPT !.value = Interleave(Normalize(self, done.value))]

(***************************************************************************)
(* calculate_energy, lines 288-300.  The sum is taken by halves: the       *)
(* arithmetic is exact, so the order of the additions does not change it.  *)
(***************************************************************************)
RECURSIVE SumSquares(_, _, _, _)
SumSquares(re, im, lo, hi) ==
    IF lo > hi THEN FZero
    ELSE IF lo = hi THEN FAdd(FMul(re[lo], re[lo]), FMul(im[lo], im[lo]))
    ELSE LET mid == (lo + hi) \div 2
         IN  FAdd(SumSquares(re, im, lo, mid), SumSquares(re, im, mid + 1, hi))

\* mutant: the lengths are not compared, the shorter array bounds the sum
calculate_energy_zip(coefficients_real, coefficients_imag) ==
    [kind |-> "ok", err |-> "",
     value |-> SumSquares(coefficients_real, coefficients_imag, 0,
                          Min(ALen(coefficients_real), ALen(coefficients_imag)) - 1)]

calculate_energy(coefficients_real, coefficients_imag) ==
    IF ALen(coefficients_real) # ALen(coefficients_imag)
    THEN [kind |-> "err", err |-> "Real and imaginary arrays must have same length",
          value |-> FZero]
    ELSE [kind |-> "ok", err |-> "",
          value |-> SumSquares(coefficients_real, coefficients_imag,
                               0, ALen(coefficients_real) - 1)]

(***************************************************************************)
(* The caller: the arrays it passes and what it does with a result.        *)
(***************************************************************************)
MaxSizeArg == 64    \* sizes 0..MaxSizeArg are passed to FFT3D::new
MaxVolume == 6      \* volumes 0..MaxVolume are passed to a size-8 engine
MaxChain == 2       \* calls made on one volume, each fed the result before
MaxPlans == 6       \* no call is made once the planner built this many plans
DataSize == 8       \* the size whose DFT samples the arithmetic writes down

Arr(s) == [i \in 0..(Len(s) - 1) |-> FInt(s[i + 1])]
Pair(re, im) == [real |-> re, imag |-> im, built |-> TRUE]
NoInput == [real |-> <<>>, imag |-> <<>>, built |-> FALSE]

\* volume 0 is the unit impulse of test_forward_inverse_roundtrip; volume k
\* holds (2 - (k % 3)) + (2 * (k % 2) - 1) i at index 83 * k and k % 2 at
\* index len - k
Volume(len, k) ==
    IF k = 0
    THEN Pair([i \in 0..(len - 1) |-> IF i = 0 THEN FOne ELSE FZero],
              [i \in 0..(len - 1) |-> FZero])
    ELSE Pair([i \in 0..(len - 1) |->
                  IF i = (83 * k) % len THEN FInt(2 - (k % 3))
                  ELSE IF i = len - k THEN FInt(k % 2) ELSE FZero],
              [i \in 0..(len - 1) |->
                  IF i = (83 * k) % len THEN FInt(2 * (k % 2) - 1) ELSE FZero])

Ones(len) == [i \in 0..(len - 1) |-> FOne]

\* the arrays of the energy tests, and arrays of unequal lengths
SmallInputs ==
    { Pair(Arr(<<>>), Arr(<<>>)),
      Pair(Arr(<<1, 2, 3>>), Arr(<<0, 0, 0>>)),
      Pair(Arr(<<3, 0>>), Arr(<<4, 5>>)),
      Pair(Arr(<<1, 2, 3>>), Arr(<<4, 5>>)) }

\* arrays one element short or long of total
WrongLengths(total) ==
    { Pair(Ones(total - 1), Ones(total)),
      Pair(Ones(total), Ones(total + 1)),
      Pair(Ones(total + 1), Ones(total - 1)) }

Inputs(total) ==
    SmallInputs \cup WrongLengths(total)
    \cup { Volume(total, k) : k \in 0..(IF total = DataSize * DataSize * DataSize
                                        THEN MaxVolume ELSE 0) }

\* forward.iter().step_by(2) and forward.iter().skip(1).step_by(2), lines 342-343
Deinterleave(v) ==
    Pair([i \in 0..((ALen(v) + 1) \div 2 - 1) |-> v[2 * i]],
         [i \in 0..(ALen(v) \div 2 - 1) |-> v[2 * i + 1]])

VARIABLES
    made,     \* what the call of FFT3D::new returned
    engine,   \* the FFT3D, None before it is made
    input,    \* the arrays the caller holds for its next call
    orig,     \* the arrays the caller built, before any result was fed back
    chain,    \* the calls made since then
    ret,      \* what the last forward or inverse call returned
    energy    \* what calculate_energy returned

vars == <<made, engine, input, orig, chain, ret, energy>>

NotMade == [called |-> FALSE, arg |-> 0, ok |-> FALSE, err |-> NoErr]
NoRet == [op |-> "none", was |-> None, kind |-> "none", value |-> <<>>,
          err |-> NoErr, plans |-> None, log |-> <<>>]
NoEnergy == [kind |-> "none", err |-> "", value |-> FZero, was |-> None]

Init ==
    /\ made = NotMade
    /\ engine = None
    /\ input = NoInput
    /\ orig = NoInput
    /\ chain = <<>>
    /\ ret = NoRet
    /\ energy = NoEnergy

\* let fft = FFT3D::new(s)
New(s) ==
    /\ engine = None
    /\ LET r == FFT3D_new(s)
       IN  /\ made' = [called |-> TRUE, arg |-> s, ok |-> r.ok, err |-> r.err]
           /\ engine' = r.engine
    /\ UNCHANGED <<input, orig, chain, ret, energy>>

\* the caller builds the arrays of its next call
Prepare ==
    /\ engine # None
    /\ energy = NoEnergy
    /\ Len(engine.plan_cache.planner) < MaxPlans
    /\ \E v \in Inputs(engine.total_size) : input' = v /\ orig' = v
    /\ chain' = <<>>
    /\ ret' = NoRet
    /\ UNCHANGED <<made, engine, energy>>

Call(op, out) ==
    /\ engine' = out.self
    /\ ret' = [op |-> op, was |-> engine, kind |-> out.kind, value |-> out.value,
               err |-> out.err, plans |-> out.plans, log |-> out.log]
    /\ chain' = Append(chain, op)
    /\ UNCHANGED <<made, input, orig, energy>>

CanCall == engine # None /\ input.built /\ ret.op = "none" /\ energy = NoEnergy

\* fft.forward(&input_real, &input_imag)
Forward == CanCall /\ Call("forward", forward(engine, input.real, input.imag))

\* fft.inverse(&input_real, &input_imag)
Inverse == CanCall /\ Call("inverse", inverse(engine, input.real, input.imag))

\* the caller splits the returned vector into the arrays of its next call
Feed ==
    /\ ret.kind = "ok"
    /\ Len(chain) < MaxChain
    /\ input' = Deinterleave(ret.value)
    /\ ret' = NoRet
    /\ UNCHANGED <<made, engine, orig, chain, energy>>

\* calculate_energy(&real, &imag)
Energy ==
    /\ input.built
    /\ ret.op = "none"
    /\ energy = NoEnergy
    /\ LET r == calculate_energy(input.real, input.imag)
       IN  energy' = [kind |-> r.kind, err |-> r.err, value |-> r.value, was |-> engine]
    /\ UNCHANGED <<made, engine, input, orig, chain, ret>>

\* Every size: an engine is made and called with the arrays of Inputs.
Next ==
    \/ \E s \in 0..MaxSizeArg : New(s)
    \/ Prepare
    \/ Forward
    \/ Inverse

Spec == Init /\ [][Next]_vars

\* Size 8: the engine of the tests is called on a volume and on its results.
InitData ==
    /\ made = [called |-> TRUE, arg |-> DataSize, ok |-> TRUE, err |-> NoErr]
    /\ engine = FFT3D_new(DataSize).engine
    /\ input \in Inputs(DataSize * DataSize * DataSize)
    /\ orig = input
    /\ chain = <<>>
    /\ ret = NoRet
    /\ energy = NoEnergy

NextData == Forward \/ Inverse \/ Feed \/ Energy

SpecData == InitData /\ [][NextData]_vars

(***************************************************************************)
(* Properties.                                                             *)
(***************************************************************************)
Supported == {8, 16, 32}

\* C2: FFT3D::new(s) returns an engine iff s is 8, 16 or 32; for every other
\* s it returns the unsupported-size error naming s and no engine exists.
C2_NewIffSupported ==
    /\ ~made.called => engine = None
    /\ made.called =>
        /\ made.ok <=> made.arg \in Supported
        /\ made.ok <=> engine # None
        /\ ~made.ok => made.err.kind = "UnsupportedSize" /\ made.err.size = made.arg
        /\ made.ok => made.err.kind = "none"

C2_Witness == made.called /\ made.arg = 5 /\ ~made.ok /\ engine = None

\* C5: in every state of an engine, whatever calls succeeded or failed,
\* size() is the constructor's argument and total_size() is size^3: 512 for
\* 8, 4096 for 16, 32768 for 32.
C5_ShapeFixed ==
    engine # None =>
        /\ size(engine) = made.arg
        /\ total_size(engine) = size(engine) * size(engine) * size(engine)
        /\ size(engine) = 8 => total_size(engine) = 512
        /\ size(engine) = 16 => total_size(engine) = 4096
        /\ size(engine) = 32 => total_size(engine) = 32768
        /\ size(engine) \in Supported

C5_Witness ==
    /\ engine # None
    /\ size(engine) = 16 /\ total_size(engine) = 4096
    /\ ret.kind = "err"
    /\ engine.plan_cache.planner # <<>>

WrongReal == ALen(input.real) # engine.total_size
WrongImag == ALen(input.imag) # engine.total_size

\* C3: a forward or inverse call with a real or imaginary array whose length
\* is not total_size returns the invalid-input-length error naming
\* total_size, the length of the offending array and which array it is, real
\* first; it returns no vector, runs no 1D transform and leaves the engine,
\* plan cache included, as it was.
C3_InvalidLength ==
    (ret.op # "none" /\ (WrongReal \/ WrongImag)) =>
        /\ ret.kind = "err"
        /\ ret.err.kind = "InvalidInputLength"
        /\ ret.err.expected = engine.total_size
        /\ ret.err.which = (IF WrongReal THEN "real" ELSE "imag")
        /\ ret.err.got = (IF WrongReal THEN ALen(input.real) ELSE ALen(input.imag))
        /\ ret.value = <<>>
        /\ ret.log = <<>>
        /\ engine = ret.was

C3_Witness ==
    /\ ret.op = "forward"
    /\ engine # None
    /\ WrongReal /\ WrongImag
    /\ ret.err.which = "real"
    /\ ret.err.got = engine.total_size + 1
    /\ engine.plan_cache.planner = <<>>

FirstPair(n) ==
    << [len |-> n, dir |-> "forward", serial |-> 1],
       [len |-> n, dir |-> "inverse", serial |-> 2] >>

Slot(cache, n) ==
    CASE n = 8 -> cache.size_8 [] n = 16 -> cache.size_16 [] n = 32 -> cache.size_32

\* C4: the plan cache builds executors lazily and at most once: none exists
\* right after construction, a successful call leaves exactly one forward
\* and one inverse executor of the engine's size, and every call, in either
\* direction, gets that stored pair, so no third executor is ever built.
C4_PlanReuse ==
    engine # None =>
        LET cache == engine.plan_cache
            pair == FirstPair(engine.size)
        IN  /\ ~input.built => cache.planner = <<>>
            /\ cache.planner \in {<<>>, pair}
            /\ Slot(cache, engine.size) = (IF cache.planner = <<>> THEN None ELSE pair)
            /\ ret.kind = "ok" => cache.planner = pair /\ ret.plans = pair
            /\ Len(cache.planner) <= 2

C4_Witness ==
    /\ engine # None
    /\ ret.kind = "ok" /\ ret.op = "inverse"
    /\ ret.was.plan_cache.planner = FirstPair(16)
    /\ engine.plan_cache.planner = FirstPair(16)

\* C10: on an engine from a successful FFT3D::new the unsupported-size branch
\* of get_plans is never taken: only the slot of the engine's own size is
\* ever filled, and every call whose two arrays have length total_size
\* returns a vector.
C10_NoUnsupported ==
    engine # None =>
        /\ ret.err.kind # "UnsupportedSize"
        /\ \A n \in Supported \ {engine.size} : Slot(engine.plan_cache, n) = None
        /\ (ret.op # "none" /\ ~WrongReal /\ ~WrongImag) => ret.kind = "ok"

C10_Witness ==
    /\ engine # None
    /\ engine.size = 16
    /\ ret.kind = "ok"
    /\ engine.plan_cache.size_16 # None
    /\ engine.plan_cache.size_8 = None /\ engine.plan_cache.size_32 = None

Range(f) == {f[j] : j \in DOMAIN f}

\* C9: a successful call runs three passes, X then Y then Z, all with the one
\* executor of the call's direction.  The n^2 slices of a pass partition the
\* buffer: slice (z, y) of X is z n^2 + y n + x over x, slice (z, x) of Y is
\* the same over y, slice (y, x) of Z the same over z; every index is inside
\* the buffer and each slice is written back where it was read.  No call
\* indexes outside the buffer.
C9_ThreePasses ==
    /\ ret.kind # "panic"
    /\ ret.kind = "ok" =>
        LET n == engine.size
            log == ret.log
            fft == IF ret.op = "forward" THEN ret.plans[1] ELSE ret.plans[2]
        IN  /\ Len(log) = 3 * n * n
            /\ fft.dir = ret.op /\ fft.len = n
            /\ \A k \in 1..Len(log) :
                /\ log[k].axis = (IF k <= n * n THEN "X"
                                  ELSE IF k <= 2 * n * n THEN "Y" ELSE "Z")
                /\ log[k].fft = fft
                /\ log[k].to = log[k].from
                /\ Len(log[k].from) = n
                /\ \A j \in 1..n : log[k].from[j] \in 0..(engine.total_size - 1)
            /\ \A k \in 1..(n * n) : \A j \in 1..n :
                /\ log[k].from[j] =
                       ((k - 1) \div n) * n * n + ((k - 1) % n) * n + (j - 1)
                /\ log[n * n + k].from[j] =
                       ((k - 1) \div n) * n * n + (j - 1) * n + ((k - 1) % n)
                /\ log[2 * n * n + k].from[j] =
                       (j - 1) * n * n + ((k - 1) \div n) * n + ((k - 1) % n)
            /\ \A pass \in 0..2 :
                UNION {Range(log[pass * n * n + k].from) : k \in 1..(n * n)}
                    = 0..(engine.total_size - 1)

C9_Witness ==
    /\ ret.kind = "ok" /\ ret.op = "inverse"
    /\ engine.size = 16
    /\ Len(ret.log) = 768
    /\ ret.log[768].axis = "Z"
    /\ ret.log[768].to[16] = 4095

Support == {i \in DOMAIN input.real : input.real[i] # FZero \/ input.imag[i] # FZero}

Phase(j, k) ==
    ((j % 8) * (k % 8) + ((j \div 8) % 8) * ((k \div 8) % 8)
        + (j \div 64) * (k \div 64)) % 8

RECURSIVE DefiningSum(_, _, _)
DefiningSum(S, dir, k) ==
    IF S = {} THEN CZero
    ELSE LET j == CHOOSE m \in S : TRUE
         IN  CAdd(CMul(Complex(input.real[j], input.imag[j]), Twiddle8[dir][Phase(j, k)]),
                  DefiningSum(S \ {j}, dir, k))

Sample(k) ==
    LET c == DefiningSum(Support, ret.op, k)
        div == IF ret.op = "inverse" THEN <<1, 0, 9>> ELSE FOne
    IN  Complex(FMul(c.re, div), FMul(c.im, div))

\* C7: a successful call returns 2 * total_size numbers; numbers 2i and
\* 2i + 1 are the real and the imaginary part of sample i of the 3D DFT of
\* the input, where sample i of the input is (real[i], imag[i]) and index
\* z n^2 + y n + x is the point (x, y, z), going in and coming out.  The
\* samples are those of the DFT's defining sum (divided by total_size for
\* inverse), taken over the nonzero input samples.
C7_Interleaved ==
    ret.kind = "ok" =>
        /\ ALen(ret.value) = 2 * engine.total_size
        /\ DOMAIN ret.value = 0..(2 * engine.total_size - 1)
        /\ (engine.size = 8 /\ Cardinality(Support) <= 2) =>
            \A i \in 0..511 :
                /\ ret.value[2 * i] = Sample(i).re
                /\ ret.value[2 * i + 1] = Sample(i).im

C7_Witness ==
    /\ ret.kind = "ok" /\ ret.op = "forward"
    /\ engine.size = 8
    /\ input = Volume(512, 1)
    /\ ret.value[2 * 9] = <<0, -1, 0>>
    /\ ret.value[2 * 9 + 1] = FOne

\* C1: forward, then inverse on the de-interleaved result, on the same
\* engine, returns the original volume, every real and imaginary part equal;
\* the unit impulse at index 0 comes back as 1 at index 0 and 0 elsewhere.
C1_RoundTrip ==
    (chain = <<"forward", "inverse">> /\ ret.kind = "ok") =>
        /\ ALen(ret.value) = 2 * ALen(orig.real)
        /\ \A i \in DOMAIN orig.real :
            /\ ret.value[2 * i] = orig.real[i]
            /\ ret.value[2 * i + 1] = orig.imag[i]
        /\ orig = Volume(512, 0) =>
            /\ ret.value[0] = FOne
            /\ \A i \in 1..511 : ret.value[2 * i] = FZero

C1_Witness ==
    /\ chain = <<"forward", "inverse">>
    /\ ret.kind = "ok"
    /\ orig = Volume(512, 0)
    /\ ret.value[0] = FOne
    /\ ret.value[2 * 511] = FZero

RECURSIVE SumRange(_, _, _)
SumRange(a, lo, hi) ==
    IF lo > hi THEN FZero
    ELSE IF lo = hi THEN a[lo]
    ELSE LET mid == (lo + hi) \div 2
         IN  FAdd(SumRange(a, lo, mid), SumRange(a, mid + 1, hi))

Total(a) == SumRange(a, 0, ALen(a) - 1)
EnergyOf(p) == SumSquares(p.real, p.imag, 0, ALen(p.real) - 1)

\* C6: forward returns the three-pass result unscaled and inverse returns it
\* multiplied by 1/total_size, once.  For a volume v of total_size samples
\* with transform V: V[0] is the sum of v and the energy of V is total_size
\* times that of v (forward); V[0] is the sum of v over total_size and the
\* energy of V is that of v over total_size (inverse).
C6_Normalization ==
    ret.kind = "ok" =>
        LET out == Deinterleave(ret.value)
            count == FInt(ALen(input.real))
        IN  /\ ALen(input.real) = 512
            /\ ret.op = "forward" =>
                /\ out.real[0] = Total(input.real)
                /\ out.imag[0] = Total(input.imag)
                /\ EnergyOf(out) = FMul(count, EnergyOf(input))
            /\ ret.op = "inverse" =>
                /\ FMul(count, out.real[0]) = Total(input.real)
                /\ FMul(count, out.imag[0]) = Total(input.imag)
                /\ FMul(count, EnergyOf(out)) = EnergyOf(input)

C6_Witness ==
    /\ ret.kind = "ok" /\ ret.op = "inverse"
    /\ chain = <<"inverse">>
    /\ input = Volume(512, 0)
    /\ \A i \in 0..511 : ret.value[2 * i] = <<1, 0, 9>> /\ ret.value[2 * i + 1] = FZero

RECURSIVE IntSquares(_, _, _, _)
IntSquares(re, im, lo, hi) ==
    IF lo > hi THEN 0
    ELSE IF lo = hi THEN re[lo][1] * re[lo][1] + im[lo][1] * im[lo][1]
    ELSE LET mid == (lo + hi) \div 2
         IN  IntSquares(re, im, lo, mid) + IntSquares(re, im, mid + 1, hi)

IsInt(a) == \A i \in DOMAIN a : a[i][2] = 0 /\ a[i][3] = 0

\* C8: calculate_energy returns the length-mismatch error when the two
\* arrays differ in length and otherwise the sum of real[i]^2 + imag[i]^2:
\* 0 for two empty arrays, 14 for ([1,2,3],[0,0,0]), 50 for ([3,0],[4,5]);
\* it leaves the engine as it was.
C8_Energy ==
    energy.kind # "none" =>
        /\ engine = energy.was
        /\ energy.kind = "err" <=> ALen(input.real) # ALen(input.imag)
        /\ energy.kind = "err" => energy.err = "Real and imaginary arrays must have same length"
        /\ (energy.kind = "ok" /\ IsInt(input.real) /\ IsInt(input.imag)) =>
            energy.value = FInt(IntSquares(input.real, input.imag, 0, ALen(input.real) - 1))
        /\ (input.real = <<>> /\ input.imag = <<>>) => energy.value = FInt(0)
        /\ (input.real = Arr(<<1, 2, 3>>) /\ input.imag = Arr(<<0, 0, 0>>)) =>
            energy.value = FInt(14)
        /\ (input.real = Arr(<<3, 0>>) /\ input.imag = Arr(<<4, 5>>)) =>
            energy.value = FInt(50)

C8_Witness ==
    /\ energy.kind = "ok"
    /\ input.real = Arr(<<3, 0>>) /\ input.imag = Arr(<<4, 5>>)
    /\ energy.value = FInt(50)
====
